---- MODULE Spec2Model ----
(***************************************************************************)
(* A model of lddl/dask/bert/pretrain_codebert.py: the partition driver    *)
(* (_to_partition_pairs), the document packer (create_pairs_from_document) *)
(* and the single-sequence trim (_truncate_seq) it calls; the boundary-    *)
(* safe pair trim (_truncate with _cut, _adjust and                        *)
(* _is_following_subword); the pair trim (_truncate_seq_pair); and the     *)
(* masked-instance builder (create_masked_lm_predictions).                 *)
(*                                                                         *)
(* A token of a document is modelled by its identity <<kind, sentence,     *)
(* position>>: the packer never reads a token's text, only sequence        *)
(* lengths and order, so a document is determined by the lengths of its    *)
(* sentences.  Every random.random() draw is a nondeterministic choice.    *)
(***************************************************************************)
EXTENDS Integers, Sequences, FiniteSets, TLC

\* ------------------------------------------------------------------ bounds
MaxCodeSegments == 3
MaxDocSegments == 2
MaxPartitionDocs == 2
MaxDuplicate == 2
MaxTokensA == 3
MaxTokensB == 2
MaxMaskTokens == 3
MaxWordLen == 4
MaxAdjustLen == 2

\* Lengths a code sentence / a docstring sentence may have, and the
\* values of --target-seq-length that are explored.
CodeLens == {2, 17}
DocLens == {3, 33}
SeqLengths == {6, 7, 18, 512}
\* Values of --target-seq-length that leave room for a body next to a
\* description longer than max_doc_seq_length.
LongSeqLengths == {64, 512}
\* masked_lm_ratio as a rational <<numerator, denominator>>
MaskRatios == {<<-1, 4>>, <<0, 1>>, <<3, 20>>, <<1, 2>>, <<1, 1>>, <<5, 4>>}
Vocabularies == {<<>>, <<"v">>}
\* Words handed to _truncate, each a sequence of characters: "ab", "##cd"
\* and "##e".
Words == {<<"a", "b">>, <<"#", "#", "c", "d">>, <<"#", "#", "e">>}
\* Characters of the words handed to _is_following_subword on its own.
WordChars == {"#", "a", "1"}
\* Tokens handed to create_masked_lm_predictions.
MaskTokens == {"x", "y", "[SEP]"}

VARIABLES
    pc,                  \* position of the run
    raised,              \* the exception that ended the run, or "none"
    \* _get_pairs / _to_partition_pairs
    max_seq_length, masking, masked_lm_ratio, vocab_words,
    partition_documents, duplicate_factor, dup_round, document_index,
    partition_pairs,
    \* create_pairs_from_document
    document, short_seq_draw, i, doc_tokens, current_chunk, current_length,
    doc_length, instances, stay_chunk_idx, code_tokens,
    flushes,             \* history: one record per body flush of this call
    \* _truncate, _cut, _adjust: tokens, lcut and rcut are indexed by the
    \* sequence, "A" or "B"
    max_length, tokens, lcut, rcut, cur, inclusive,
    trim_input,          \* history: the sequences as they were passed in
    \* create_masked_lm_predictions
    tokens_a, tokens_b, mlm_tokens, cand_indexes, output_tokens,
    num_to_predict, masked_lms, covered_indexes, cursor, result,
    \* _is_following_subword called on its own: its argument and its value
    word, following

configVars == <<max_seq_length, masking, masked_lm_ratio, vocab_words,
                partition_documents, duplicate_factor>>
driverVars == <<dup_round, document_index, partition_pairs>>
packerVars == <<document, short_seq_draw, i, doc_tokens, current_chunk,
                current_length, doc_length, instances, stay_chunk_idx,
                code_tokens, flushes>>
truncateVars == <<max_length, tokens, lcut, rcut, cur, inclusive, trim_input>>
maskVars == <<tokens_a, tokens_b, mlm_tokens, cand_indexes, output_tokens,
              num_to_predict, masked_lms, covered_indexes, cursor, result>>
subwordVars == <<word, following>>
vars == <<pc, raised, configVars, driverVars, packerVars, truncateVars,
          maskVars, subwordVars>>

\* ------------------------------------------------------- data model
SeqsUpTo(S, n) == UNION {[1..k -> S] : k \in 0..n}

Range(f) == {f[k] : k \in DOMAIN f}

Sentence(kind, idx, n) == [k \in 1..n |-> <<kind, idx, k>>]

\* CodePair(code_pair_id, codes, docstrings) from the sentence lengths
CodePair(codeLens, docLens) ==
    [codes      |-> [s \in 1..Len(codeLens) |-> Sentence("c", s, codeLens[s])],
     docstrings |-> [s \in 1..Len(docLens) |-> Sentence("d", s, docLens[s])]]

num_doc_segments(d) == Len(d.docstrings)

\* _get_code_pairs keeps only sentences with len(tokens) > 0 and only
\* pairs with len(d) > 0 (at least one code sentence).
AllCodePairs ==
    {CodePair(cl, dl) : cl \in SeqsUpTo(CodeLens, MaxCodeSegments) \ {<<>>},
                        dl \in SeqsUpTo(DocLens, MaxDocSegments)}

\* random.shuffle(s): the orders s can be left in
ShuffleOf(s) ==
    {[k \in 1..Len(s) |-> s[p[k]]] : p \in Permutations(1..Len(s))}

RECURSIVE Flatten(_)
Flatten(ss) == IF ss = <<>> THEN <<>> ELSE Head(ss) \o Flatten(Tail(ss))

RECURSIVE SumLen(_)
SumLen(ss) == IF ss = <<>> THEN 0 ELSE Len(Head(ss)) + SumLen(Tail(ss))

Prefix(s, n) == SubSeq(s, 1, n)

\* ------------------------------------------- create_pairs_from_document
special_token_length == IF num_doc_segments(document) > 0 THEN 3 ELSE 2
max_num_tokens == max_seq_length - special_token_length
max_doc_seq_length == IF max_seq_length >= 512 THEN 64 ELSE 32
target_seq_length == max_num_tokens

\* len(document): CodePair.__len__ is the number of code sentences
LenDocument == Len(document.codes)

Raise(exc) ==
    /\ pc' = "error"
    /\ raised' = exc

\* Faulty variant of _truncate_seq: the loop exits on < instead of <=.
_truncate_seq_StrictBreak(toks, max_num_tokens_) ==
    IF Len(toks) < max_num_tokens_
    THEN {[exit |-> "break", tokens |-> toks]}
    ELSE IF Len(toks) = 0
    THEN {[exit |-> "IndexError", tokens |-> toks]}
    ELSE {[exit |-> "loop", tokens |-> Tail(toks)],
          [exit |-> "loop", tokens |-> SubSeq(toks, 1, Len(toks) - 1)]}

\* One pass of the loop of _truncate_seq over the list toks: the outcomes of
\* the pass.  exit is "break" when the loop exits, "IndexError" when
\* del tokens[0] / tokens.pop() is applied to an empty list, and "loop"
\* after a removal at the front (random() < 0.5) or at the back.
_truncate_seq(toks, max_num_tokens_) ==
    IF Len(toks) <= max_num_tokens_
    THEN {[exit |-> "break", tokens |-> toks]}
    ELSE IF Len(toks) = 0
    THEN {[exit |-> "IndexError", tokens |-> toks]}
    ELSE {[exit |-> "loop", tokens |-> Tail(toks)],
          [exit |-> "loop", tokens |-> SubSeq(toks, 1, Len(toks) - 1)]}

\* Lines 353-373: the call, its budgets and the short-description draw.
CallPacker ==
    /\ pc = "driver"
    /\ dup_round < duplicate_factor
    /\ document_index < Len(partition_documents)
    /\ document' = partition_documents[document_index + 1]
    /\ \E draw \in BOOLEAN : short_seq_draw' = draw
    /\ i' = 0
    /\ doc_tokens' = <<>>
    /\ current_chunk' = <<>>
    /\ current_length' = 0
    /\ pc' = "doc_select"
    /\ UNCHANGED <<truncateVars, maskVars, raised, configVars, subwordVars,
                   driverVars, doc_length, instances, stay_chunk_idx,
                   code_tokens, flushes>>

\* Faulty variant of ShortDoc: the first docstring sentence goes through
\* the trim of line 392.
ShortDoc_Trimmed ==
    /\ pc = "doc_select"
    /\ num_doc_segments(document) > 0 /\ short_seq_draw
    /\ doc_tokens' = doc_tokens \o document.docstrings[1]
    /\ pc' = "doc_trunc"
    /\ UNCHANGED <<truncateVars, maskVars, raised, configVars, subwordVars,
                   driverVars, document, short_seq_draw, i, current_chunk,
                   current_length, doc_length, instances, stay_chunk_idx,
                   code_tokens, flushes>>

\* Lines 375-376: the first docstring sentence, untrimmed.
ShortDoc ==
    /\ pc = "doc_select"
    /\ num_doc_segments(document) > 0 /\ short_seq_draw
    /\ doc_tokens' = doc_tokens \o document.docstrings[1]
    /\ pc' = "body_init"
    /\ UNCHANGED <<truncateVars, maskVars, raised, configVars, subwordVars,
                   driverVars, document, short_seq_draw, i, current_chunk,
                   current_length, doc_length, instances, stay_chunk_idx,
                   code_tokens, flushes>>

\* Line 382: the test that ends the accumulation of docstring sentences.
DocFlushCond(idx, length) ==
    idx = LenDocument - 1 \/ length > max_doc_seq_length

\* Lines 384-390: the sentences of the chunk that make up the description.
DocEnd(chunk, length) ==
    IF length > max_doc_seq_length /\ Len(chunk) > 1
    THEN Len(chunk) - 1 ELSE Len(chunk)

\* Lines 378-396: one iteration of the docstring loop.
DocStep ==
    /\ pc = "doc_select"
    /\ ~(num_doc_segments(document) > 0 /\ short_seq_draw)
    /\ IF i < num_doc_segments(document)
       THEN LET segment == document.docstrings[i + 1]
                chunk == Append(current_chunk, segment)
                length == current_length + Len(segment)
            IN /\ current_chunk' = chunk
               /\ current_length' = length
               /\ IF DocFlushCond(i, length)
                  THEN /\ doc_tokens' = doc_tokens \o
                                Flatten(Prefix(chunk, DocEnd(chunk, length)))
                       /\ pc' = "doc_trunc"
                       /\ i' = i
                  ELSE /\ i' = i + 1
                       /\ UNCHANGED <<doc_tokens, pc>>
       ELSE /\ pc' = "body_init"
            /\ UNCHANGED <<i, doc_tokens, current_chunk, current_length>>
    /\ UNCHANGED <<truncateVars, maskVars, raised, configVars, subwordVars,
                   driverVars, document, short_seq_draw, doc_length,
                   instances, stay_chunk_idx, code_tokens, flushes>>

\* Line 392: _truncate_seq(doc_tokens, max_doc_seq_length), one pass.
DocTruncate ==
    /\ pc = "doc_trunc"
    /\ \E out \in _truncate_seq(doc_tokens, max_doc_seq_length) :
         /\ doc_tokens' = out.tokens
         /\ IF out.exit = "break"
            THEN pc' = "body_init" /\ UNCHANGED raised
            ELSE IF out.exit = "IndexError"
            THEN Raise("IndexError")
            ELSE UNCHANGED <<pc, raised>>
    /\ UNCHANGED <<truncateVars, maskVars, configVars, subwordVars,
                   driverVars, document, short_seq_draw, i, current_chunk,
                   current_length, doc_length, instances, stay_chunk_idx,
                   code_tokens, flushes>>

\* Lines 400-405.
BodyInit ==
    /\ pc = "body_init"
    /\ instances' = <<>>
    /\ current_chunk' = <<>>
    /\ doc_length' = Len(doc_tokens)
    /\ current_length' = Len(doc_tokens)
    /\ i' = 0
    /\ flushes' = <<>>
    /\ pc' = "body_loop"
    /\ UNCHANGED <<truncateVars, maskVars, raised, configVars, subwordVars,
                   driverVars, document, short_seq_draw, doc_tokens,
                   stay_chunk_idx, code_tokens>>

\* Faulty variant of FlushCond: the last sentence no longer forces a flush.
FlushCond_NoLast(idx, length) == length > target_seq_length

\* Line 410: the flush test.
FlushCond(idx, length) ==
    idx = LenDocument - 1 \/ length > target_seq_length

\* Lines 412-415: positions (from the end, as Python's -1) kept for the
\* next chunk.
StayChunkIdx(chunk, length) ==
    IF length > max_num_tokens /\ Len(chunk) > 1 THEN <<-1>> ELSE <<>>

\* Faulty variant of CandidateTokens: range(1, len(current_chunk)).
CandidateTokens_SkipFirst(chunk) == Flatten(Tail(chunk))

\* Lines 417-419: the candidate body before trimming.
CandidateTokens(chunk) == Flatten(chunk)

\* Faulty variants of CodeLimit: the description is not deducted; one too few.
CodeLimit_IgnoresDoc == max_num_tokens

CodeLimit_OffByOne == max_num_tokens - doc_length - 1

\* Line 421: the limit handed to _truncate_seq.
CodeLimit == max_num_tokens - doc_length

\* Lines 406-419 and 440-442: one iteration of the body loop up to the
\* trim, or the return when the sentences are exhausted.
BodyStep ==
    /\ pc = "body_loop"
    /\ IF i < LenDocument
       THEN LET segment == document.codes[i + 1]
                chunk == Append(current_chunk, segment)
                length == current_length + Len(segment)
            IN /\ current_chunk' = chunk
               /\ current_length' = length
               /\ IF FlushCond(i, length)
                  THEN /\ stay_chunk_idx' = StayChunkIdx(chunk, length)
                       /\ code_tokens' = CandidateTokens(chunk)
                       /\ pc' = "body_trunc"
                       /\ i' = i
                  ELSE /\ i' = i + 1
                       /\ UNCHANGED <<stay_chunk_idx, code_tokens, pc>>
       ELSE /\ pc' = "packer_return"
            /\ UNCHANGED <<i, current_chunk, current_length, stay_chunk_idx,
                           code_tokens>>
    /\ UNCHANGED <<truncateVars, maskVars, raised, configVars, subwordVars,
                   driverVars, document, short_seq_draw, doc_tokens,
                   doc_length, instances, flushes>>

\* Line 421: _truncate_seq(code_tokens, max_num_tokens - doc_length), one pass.
BodyTruncate ==
    /\ pc = "body_trunc"
    /\ \E out \in _truncate_seq(code_tokens, CodeLimit) :
         /\ code_tokens' = out.tokens
         /\ IF out.exit = "break"
            THEN pc' = "body_emit" /\ UNCHANGED raised
            ELSE IF out.exit = "IndexError"
            THEN Raise("IndexError")
            ELSE UNCHANGED <<pc, raised>>
    /\ UNCHANGED <<truncateVars, maskVars, configVars, subwordVars,
                   driverVars, document, short_seq_draw, i, doc_tokens,
                   current_chunk, current_length, doc_length, instances,
                   stay_chunk_idx, flushes>>

\* Faulty variant of EmitCond: the first instance is filtered like the others.
EmitCond_NoFirst(insts, code) == Len(code) >= 16

\* Line 425: the filter on what is emitted.
EmitCond(insts, code) == insts = <<>> \/ Len(code) >= 16

\* Lines 426-433: the instance; "doc" and "code" are the token lists that
\* are joined with " ".
Instance(doc, code) ==
    [doc |-> doc, code |-> code,
     num_tokens |-> Len(doc) + Len(code) + special_token_length]

\* Line 436: current_chunk[i] for i in stay_chunk_idx (-1 is the last).
StayChunk(chunk, stay) ==
    [k \in 1..Len(stay) |-> chunk[Len(chunk) + 1 + stay[k]]]

\* Faulty variant of ResetLength: the description length is not added back.
ResetLength_NoDoc(chunk) == IF chunk # <<>> THEN SumLen(chunk) ELSE 0

\* Lines 437-439.
ResetLength(chunk) == (IF chunk # <<>> THEN SumLen(chunk) ELSE 0) + doc_length

SentenceIds(chunk) == [k \in 1..Len(chunk) |-> chunk[k][1][2]]

\* Lines 423-440: the assertion, the emission, the reset of the chunk.
BodyEmit ==
    /\ pc = "body_emit"
    /\ IF ~(Len(code_tokens) >= 1)
       THEN /\ Raise("AssertionError")
            /\ UNCHANGED <<i, current_chunk, current_length, instances, flushes>>
       ELSE LET emitted == IF EmitCond(instances, code_tokens)
                           THEN Append(instances, Instance(doc_tokens, code_tokens))
                           ELSE instances
                kept == StayChunk(current_chunk, stay_chunk_idx)
            IN /\ instances' = emitted
               /\ flushes' = Append(flushes,
                     [chunk |-> SentenceIds(current_chunk),
                      chunk_len |-> SumLen(current_chunk),
                      code_len |-> Len(code_tokens),
                      before |-> Len(instances),
                      after |-> Len(emitted)])
               /\ current_chunk' = kept
               /\ current_length' = ResetLength(kept)
               /\ i' = i + 1
               /\ pc' = "body_loop"
               /\ UNCHANGED raised
    /\ UNCHANGED <<truncateVars, maskVars, configVars, subwordVars,
                   driverVars, document, short_seq_draw, doc_tokens,
                   doc_length, stay_chunk_idx, code_tokens>>

\* ------------------------------------------------- _to_partition_pairs
\* Lines 463-475: partition_pairs.extend(...) and the two loop counters.
Collect ==
    /\ pc = "packer_return"
    /\ partition_pairs' = partition_pairs \o instances
    /\ IF document_index + 1 < Len(partition_documents)
       THEN /\ document_index' = document_index + 1
            /\ UNCHANGED dup_round
       ELSE /\ document_index' = 0
            /\ dup_round' = dup_round + 1
    /\ pc' = "driver"
    /\ UNCHANGED <<truncateVars, maskVars, raised, configVars, subwordVars,
                   packerVars>>

\* Lines 476-477: random.shuffle(partition_pairs); return.
Shuffle ==
    /\ pc = "driver"
    /\ dup_round >= duplicate_factor
    /\ partition_pairs' \in ShuffleOf(partition_pairs)
    /\ pc' = "returned"
    /\ UNCHANGED <<truncateVars, maskVars, raised, configVars, subwordVars,
                   dup_round, document_index, packerVars>>

\* ------------------------------------------- _truncate, _cut, _adjust
Alphabetic ==
    {"a", "b", "c", "d", "e", "f", "g", "h", "i", "j", "k", "l", "m", "n",
     "o", "p", "q", "r", "s", "t", "u", "v", "w", "x", "y", "z"}

\* word[a:b] for 0 <= a, 0 <= b
PySlice(str, a, b) ==
    SubSeq(str, a + 1, IF b <= Len(str) THEN b ELSE Len(str))

\* str.isalpha(): non-empty and every character alphabetic
isalpha(str) == Len(str) > 0 /\ \A k \in 1..Len(str) : str[k] \in Alphabetic

\* Line 197.
_is_following_subword(w) ==
    /\ PySlice(w, 0, 2) = <<"#", "#">>
    /\ Len(w) > 2
    /\ isalpha(PySlice(w, 3, Len(w)))

\* Lines 196-197: the call of _is_following_subword(word) and its value.
IsFollowingSubword ==
    /\ pc = "subword_call"
    /\ following' = _is_following_subword(word)
    /\ pc' = "subword_done"
    /\ UNCHANGED <<raised, word, configVars, driverVars, packerVars,
                   truncateVars, maskVars>>

\* Faulty variant of _cut: a token popped at the right is appended to lcut.
_cut_WrongBuffer(X) ==
    /\ UNCHANGED <<max_length, cur, inclusive, trim_input>>
    /\ IF tokens[X] = <<>>
       THEN Raise("IndexError") /\ UNCHANGED <<tokens, lcut, rcut>>
       ELSE /\ UNCHANGED <<pc, raised>>
            /\ \/ /\ lcut' = [lcut EXCEPT ![X] = Append(@, tokens[X][Len(tokens[X])])]
                  /\ tokens' = [tokens EXCEPT ![X] = SubSeq(@, 1, Len(@) - 1)]
                  /\ UNCHANGED rcut
               \/ /\ lcut' = [lcut EXCEPT ![X] = Append(@, tokens[X][1])]
                  /\ tokens' = [tokens EXCEPT ![X] = Tail(@)]
                  /\ UNCHANGED rcut

\* Lines 189-193: _cut(lcut_X, tokens_X, rcut_X); pop() and popleft() of an
\* empty deque raise IndexError.
_cut(X) ==
    /\ UNCHANGED <<max_length, cur, inclusive, trim_input>>
    /\ IF tokens[X] = <<>>
       THEN Raise("IndexError") /\ UNCHANGED <<tokens, lcut, rcut>>
       ELSE /\ UNCHANGED <<pc, raised>>
            /\ \/ /\ rcut' = [rcut EXCEPT ![X] = <<tokens[X][Len(tokens[X])]>> \o @]
                  /\ tokens' = [tokens EXCEPT ![X] = SubSeq(@, 1, Len(@) - 1)]
                  /\ UNCHANGED lcut
               \/ /\ lcut' = [lcut EXCEPT ![X] = Append(@, tokens[X][1])]
                  /\ tokens' = [tokens EXCEPT ![X] = Tail(@)]
                  /\ UNCHANGED rcut

\* Line 226: the sequence the coarse phase cuts.
CutChoice == IF Len(tokens["A"]) > Len(tokens["B"]) THEN "A" ELSE "B"

\* Lines 225-229: one pass of the coarse loop.
Cut ==
    /\ pc = "cut"
    /\ Len(tokens["A"]) + Len(tokens["B"]) > max_length
    /\ _cut(CutChoice)
    /\ UNCHANGED <<configVars, subwordVars, driverVars, packerVars, maskVars>>

\* Lines 225, 231 and 201: the coarse loop ends, _adjust(A) is entered and
\* draws the policy of its head pass.
EndCut ==
    /\ pc = "cut"
    /\ ~(Len(tokens["A"]) + Len(tokens["B"]) > max_length)
    /\ cur' = "A"
    /\ \E draw \in BOOLEAN : inclusive' = draw
    /\ pc' = "adjust_head"
    /\ UNCHANGED <<raised, max_length, tokens, lcut, rcut, trim_input,
                   configVars, subwordVars, driverVars, packerVars, maskVars>>

\* Faulty variant of AdjustHead: the choice is drawn again at every token.
AdjustHead_PerToken ==
    /\ pc = "adjust_head"
    /\ \E draw \in BOOLEAN : inclusive' = draw
    /\ LET X == cur
           exit == pc' = "adjust_tail" /\ UNCHANGED <<tokens, lcut>>
       IN IF Len(tokens[X]) > 0 /\ _is_following_subword(tokens[X][1])
          THEN IF inclusive
               THEN IF Len(lcut[X]) = 0
                    THEN exit
                    ELSE /\ tokens' = [tokens EXCEPT
                                ![X] = <<lcut[X][Len(lcut[X])]>> \o @]
                         /\ lcut' = [lcut EXCEPT ![X] = SubSeq(@, 1, Len(@) - 1)]
                         /\ UNCHANGED pc
               ELSE /\ lcut' = [lcut EXCEPT ![X] = Append(@, tokens[X][1])]
                    /\ tokens' = [tokens EXCEPT ![X] = Tail(@)]
                    /\ UNCHANGED pc
          ELSE exit
    /\ UNCHANGED <<raised, max_length, rcut, cur, trim_input, configVars,
                   subwordVars, driverVars, packerVars, maskVars>>

\* Lines 202-209: one pass of the head loop of _adjust on sequence cur, or
\* its exit and the draw of the tail pass.
AdjustHead ==
    /\ pc = "adjust_head"
    /\ LET X == cur
           exit == /\ \E draw \in BOOLEAN : inclusive' = draw
                   /\ pc' = "adjust_tail"
                   /\ UNCHANGED <<tokens, lcut>>
       IN IF Len(tokens[X]) > 0 /\ _is_following_subword(tokens[X][1])
          THEN IF inclusive
               THEN IF Len(lcut[X]) = 0
                    THEN exit
                    ELSE /\ tokens' = [tokens EXCEPT
                                ![X] = <<lcut[X][Len(lcut[X])]>> \o @]
                         /\ lcut' = [lcut EXCEPT ![X] = SubSeq(@, 1, Len(@) - 1)]
                         /\ UNCHANGED <<pc, inclusive>>
               ELSE /\ lcut' = [lcut EXCEPT ![X] = Append(@, tokens[X][1])]
                    /\ tokens' = [tokens EXCEPT ![X] = Tail(@)]
                    /\ UNCHANGED <<pc, inclusive>>
          ELSE exit
    /\ UNCHANGED <<raised, max_length, rcut, cur, trim_input, configVars,
                   subwordVars, driverVars, packerVars, maskVars>>

\* Lines 210-216 and 232-233: one pass of the tail loop of _adjust on
\* sequence cur, or its exit: _adjust(B) after A, the return after B.
AdjustTail ==
    /\ pc = "adjust_tail"
    /\ LET X == cur
           exit == /\ IF X = "A"
                      THEN /\ cur' = "B"
                           /\ \E draw \in BOOLEAN : inclusive' = draw
                           /\ pc' = "adjust_head"
                      ELSE /\ pc' = "truncated"
                           /\ UNCHANGED <<cur, inclusive>>
                   /\ UNCHANGED <<tokens, rcut>>
       IN IF Len(rcut[X]) > 0 /\ _is_following_subword(rcut[X][1])
          THEN IF inclusive
               THEN /\ tokens' = [tokens EXCEPT ![X] = Append(@, rcut[X][1])]
                    /\ rcut' = [rcut EXCEPT ![X] = Tail(@)]
                    /\ UNCHANGED <<pc, cur, inclusive>>
               ELSE IF Len(tokens[X]) = 0
                    THEN exit
                    ELSE /\ rcut' = [rcut EXCEPT
                                ![X] = <<tokens[X][Len(tokens[X])]>> \o @]
                         /\ tokens' = [tokens EXCEPT ![X] = SubSeq(@, 1, Len(@) - 1)]
                         /\ UNCHANGED <<pc, cur, inclusive>>
          ELSE exit
    /\ UNCHANGED <<raised, max_length, lcut, trim_input, configVars,
                   subwordVars, driverVars, packerVars, maskVars>>

\* ------------------------------------ _truncate_seq, _truncate_seq_pair
\* Lines 236-247: one pass of the loop of _truncate_seq(tokens, max_num_tokens)
\* called on its own, on the list tokens["A"] with max_length as the limit.
TruncateSeq ==
    /\ pc = "seq_loop"
    /\ \E out \in _truncate_seq(tokens["A"], max_length) :
         /\ tokens' = [tokens EXCEPT !["A"] = out.tokens]
         /\ IF out.exit = "break"
            THEN pc' = "seq_done" /\ UNCHANGED raised
            ELSE IF out.exit = "IndexError"
            THEN Raise("IndexError")
            ELSE UNCHANGED <<pc, raised>>
    /\ UNCHANGED <<max_length, lcut, rcut, cur, inclusive, trim_input,
                   configVars, subwordVars, driverVars, packerVars, maskVars>>

\* Faulty variant of TruncTokens: the shorter list is chosen.
TruncTokens_Shorter == IF Len(tokens["A"]) > Len(tokens["B"]) THEN "B" ELSE "A"

\* Faulty variant of TruncTokens: a tie goes to tokens_a.
TruncTokens_TieToA == IF Len(tokens["A"]) >= Len(tokens["B"]) THEN "A" ELSE "B"

\* Line 266: the list _truncate_seq_pair removes from.
TruncTokens == IF Len(tokens["A"]) > Len(tokens["B"]) THEN "A" ELSE "B"

\* Lines 262-264: the loop of _truncate_seq_pair ends.
PairBreak ==
    /\ pc = "pair_loop"
    /\ Len(tokens["A"]) + Len(tokens["B"]) <= max_length
    /\ pc' = "pair_done"
    /\ UNCHANGED <<raised, truncateVars, configVars, subwordVars, driverVars,
                   packerVars, maskVars>>

\* Lines 262-274: one removal of _truncate_seq_pair, at the front
\* (random() < 0.5) or at the back, or the failure of its assertion.
PairRemove ==
    /\ pc = "pair_loop"
    /\ ~(Len(tokens["A"]) + Len(tokens["B"]) <= max_length)
    /\ LET X == TruncTokens
       IN IF ~(Len(tokens[X]) >= 1)
          THEN Raise("AssertionError") /\ UNCHANGED tokens
          ELSE /\ UNCHANGED <<pc, raised>>
               /\ \/ tokens' = [tokens EXCEPT ![X] = Tail(@)]
                  \/ tokens' = [tokens EXCEPT ![X] = SubSeq(@, 1, Len(@) - 1)]
    /\ UNCHANGED <<max_length, lcut, rcut, cur, inclusive, trim_input,
                   configVars, subwordVars, driverVars, packerVars, maskVars>>

\* ---------------------------------------- create_masked_lm_predictions
Max(a, b) == IF a >= b THEN a ELSE b

\* Python 3 round(num / den) for den > 0: to the nearest integer, a tie to
\* the even one.
PyRound(num, den) ==
    LET q == num \div den
        r == num % den
    IN IF 2 * r < den THEN q
       ELSE IF 2 * r > den THEN q + 1
       ELSE IF q % 2 = 0 THEN q ELSE q + 1

\* Lines 283-288.
FullTokens(a, b) ==
    <<"[CLS]">> \o (IF a # <<>> THEN a \o <<"[SEP]">> ELSE a) \o b \o <<"[SEP]">>

\* Faulty variant of CandIndexes: the markers are candidates too.
CandIndexes_All(toks) == [k \in 1..Len(toks) |-> k - 1]

\* Lines 290-294: the indexes (from 0) of the tokens that are no marker.
CandIndexes(toks) ==
    SelectSeq([k \in 1..Len(toks) |-> k - 1],
              LAMBDA idx : ~(toks[idx + 1] = "[CLS]" \/ toks[idx + 1] = "[SEP]"))

\* Faulty variant of NumToPredict: the floor of one is lost.
NumToPredict_NoFloor(n, ratio) == PyRound(n * ratio[1], ratio[2])

\* Line 300.
NumToPredict(n, ratio) == Max(1, PyRound(n * ratio[1], ratio[2]))

\* Lines 282-302.
MaskBegin ==
    /\ pc = "mask_begin"
    /\ mlm_tokens' = FullTokens(tokens_a, tokens_b)
    /\ cand_indexes' \in ShuffleOf(CandIndexes(mlm_tokens'))
    /\ output_tokens' = mlm_tokens'
    /\ num_to_predict' = NumToPredict(Len(mlm_tokens'), masked_lm_ratio)
    /\ masked_lms' = <<>>
    /\ covered_indexes' = {}
    /\ cursor' = 0
    /\ pc' = "mask_loop"
    /\ UNCHANGED <<raised, configVars, subwordVars, driverVars, packerVars,
                   truncateVars, tokens_a, tokens_b, result>>

\* Lines 304-325: one pass of the loop over cand_indexes, or its end.
\* The masked token is [MASK] (random() < 0.8), the original token, or
\* vocab_words[randint(0, len(vocab_words) - 1)], which raises ValueError
\* on an empty vocabulary.
MaskLoop ==
    /\ pc = "mask_loop"
    /\ IF cursor < Len(cand_indexes)
       THEN LET index == cand_indexes[cursor + 1]
            IN IF Len(masked_lms) >= num_to_predict
               THEN /\ pc' = "mask_sort"
                    /\ UNCHANGED <<raised, covered_indexes, output_tokens,
                                   masked_lms, cursor>>
               ELSE IF index \in covered_indexes
               THEN /\ cursor' = cursor + 1
                    /\ UNCHANGED <<pc, raised, covered_indexes, output_tokens,
                                   masked_lms>>
               ELSE /\ covered_indexes' = covered_indexes \cup {index}
                    /\ \/ /\ \E masked_token \in
                                 {"[MASK]", mlm_tokens[index + 1]}
                                    \cup Range(vocab_words) :
                               output_tokens' = [output_tokens EXCEPT
                                                   ![index + 1] = masked_token]
                          /\ masked_lms' = Append(masked_lms,
                                [index |-> index, label |-> mlm_tokens[index + 1]])
                          /\ cursor' = cursor + 1
                          /\ UNCHANGED <<pc, raised>>
                       \/ /\ vocab_words = <<>>
                          /\ Raise("ValueError")
                          /\ UNCHANGED <<output_tokens, masked_lms, cursor>>
       ELSE /\ pc' = "mask_sort"
            /\ UNCHANGED <<raised, covered_indexes, output_tokens, masked_lms,
                           cursor>>
    /\ UNCHANGED <<configVars, subwordVars, driverVars, packerVars,
                   truncateVars, tokens_a, tokens_b, mlm_tokens, cand_indexes,
                   num_to_predict, result>>

RECURSIVE InsertByIndex(_, _)
InsertByIndex(x, s) ==
    IF s = <<>> THEN <<x>>
    ELSE IF x.index < Head(s).index THEN <<x>> \o s
    ELSE <<Head(s)>> \o InsertByIndex(x, Tail(s))

\* Line 327: sorted(masked_lms, key=lambda x: x.index)
RECURSIVE SortedByIndex(_)
SortedByIndex(s) ==
    IF s = <<>> THEN <<>>
    ELSE InsertByIndex(s[Len(s)], SortedByIndex(SubSeq(s, 1, Len(s) - 1)))

\* Lines 336-337: the two slices of output_tokens that are returned.
SliceA(out, num_tokens_a) == PySlice(out, 1, 1 + num_tokens_a)

SliceB(out, num_tokens_a, num_tokens_b) ==
    PySlice(out, 2 + num_tokens_a, 2 + num_tokens_a + num_tokens_b)

\* Lines 327-340.
MaskReturn ==
    /\ pc = "mask_sort"
    /\ masked_lms' = SortedByIndex(masked_lms)
    /\ result' =
         [tokens_a |-> SliceA(output_tokens, Len(tokens_a)),
          tokens_b |-> SliceB(output_tokens, Len(tokens_a), Len(tokens_b)),
          masked_lm_positions |->
             [k \in 1..Len(masked_lms) |-> masked_lms'[k].index],
          masked_lm_labels |->
             [k \in 1..Len(masked_lms) |-> masked_lms'[k].label]]
    /\ pc' = "masked"
    /\ UNCHANGED <<raised, configVars, subwordVars, driverVars, packerVars,
                   truncateVars, tokens_a, tokens_b, mlm_tokens, cand_indexes,
                   output_tokens, num_to_predict, covered_indexes, cursor>>

\* --------------------------------------------------------------- specs
InitTruncateIdle ==
    /\ max_length = 0
    /\ tokens = [X \in {"A", "B"} |-> <<>>]
    /\ lcut = [X \in {"A", "B"} |-> <<>>]
    /\ rcut = [X \in {"A", "B"} |-> <<>>]
    /\ cur = "A"
    /\ inclusive = FALSE
    /\ trim_input = tokens

InitMaskIdle ==
    /\ tokens_a = <<>>
    /\ tokens_b = <<>>
    /\ mlm_tokens = <<>>
    /\ cand_indexes = <<>>
    /\ output_tokens = <<>>
    /\ num_to_predict = 0
    /\ masked_lms = <<>>
    /\ covered_indexes = {}
    /\ cursor = 0
    /\ result = <<>>

InitPackerIdle ==
    /\ dup_round = 0
    /\ document_index = 0
    /\ partition_pairs = <<>>
    /\ document = CodePair(<<2>>, <<>>)
    /\ short_seq_draw = FALSE
    /\ i = 0
    /\ doc_tokens = <<>>
    /\ current_chunk = <<>>
    /\ current_length = 0
    /\ doc_length = 0
    /\ instances = <<>>
    /\ stay_chunk_idx = <<>>
    /\ code_tokens = <<>>
    /\ flushes = <<>>

InitSubwordIdle ==
    /\ word = <<>>
    /\ following = FALSE

InitConfigIdle ==
    /\ max_seq_length = 128
    /\ masking = FALSE
    /\ masked_lm_ratio = <<3, 20>>
    /\ vocab_words = <<"v">>
    /\ partition_documents = <<>>
    /\ duplicate_factor = 1

\* _truncate(tokens_A, tokens_B, max_length) on every pair of sequences.
InitTruncate ==
    /\ pc = "cut"
    /\ raised = "none"
    /\ InitConfigIdle /\ InitPackerIdle /\ InitMaskIdle
    /\ InitSubwordIdle
    /\ max_length \in -1..MaxTokensA
    /\ \E a \in SeqsUpTo(Words, MaxTokensA), b \in SeqsUpTo(Words, MaxTokensB) :
          tokens = [X \in {"A", "B"} |-> IF X = "A" THEN a ELSE b]
    /\ lcut = [X \in {"A", "B"} |-> <<>>]
    /\ rcut = [X \in {"A", "B"} |-> <<>>]
    /\ cur = "A"
    /\ inclusive = FALSE
    /\ trim_input = tokens

NextTruncate ==
    \/ Cut
    \/ EndCut
    \/ AdjustHead
    \/ AdjustTail

SpecTruncate == InitTruncate /\ [][NextTruncate]_vars

\* _adjust(lcut, tokens, rcut) on every triple of deques, as the last call
\* of _truncate (line 232), with the draw of its head pass.
InitAdjust ==
    /\ pc = "adjust_head"
    /\ raised = "none"
    /\ InitConfigIdle /\ InitPackerIdle /\ InitMaskIdle /\ InitSubwordIdle
    /\ max_length = 0
    /\ cur = "B"
    /\ inclusive \in BOOLEAN
    /\ \E l \in SeqsUpTo(Words, MaxAdjustLen), t \in SeqsUpTo(Words, MaxAdjustLen),
          r \in SeqsUpTo(Words, MaxAdjustLen) :
          /\ lcut = [X \in {"A", "B"} |-> IF X = "B" THEN l ELSE <<>>]
          /\ tokens = [X \in {"A", "B"} |-> IF X = "B" THEN t ELSE <<>>]
          /\ rcut = [X \in {"A", "B"} |-> IF X = "B" THEN r ELSE <<>>]
    /\ trim_input = tokens

NextAdjust ==
    \/ AdjustHead
    \/ AdjustTail

SpecAdjust == InitAdjust /\ [][NextAdjust]_vars

\* The call runs on: a pass of a loop that can be taken is taken.
LiveAdjust == SpecAdjust /\ WF_vars(NextAdjust)

\* _is_following_subword(word) on every word of at most MaxWordLen
\* characters.
InitSubword ==
    /\ pc = "subword_call"
    /\ raised = "none"
    /\ InitConfigIdle /\ InitPackerIdle /\ InitTruncateIdle /\ InitMaskIdle
    /\ word \in SeqsUpTo(WordChars, MaxWordLen)
    /\ following = FALSE

NextSubword == IsFollowingSubword

SpecSubword == InitSubword /\ [][NextSubword]_vars

\* _truncate_seq(tokens, max_num_tokens) on every sequence.
InitTruncateSeq ==
    /\ pc = "seq_loop"
    /\ raised = "none"
    /\ InitConfigIdle /\ InitPackerIdle /\ InitMaskIdle
    /\ InitSubwordIdle
    /\ max_length \in -1..MaxTokensA
    /\ \E a \in SeqsUpTo(Words, MaxTokensA) :
          tokens = [X \in {"A", "B"} |-> IF X = "A" THEN a ELSE <<>>]
    /\ lcut = [X \in {"A", "B"} |-> <<>>]
    /\ rcut = [X \in {"A", "B"} |-> <<>>]
    /\ cur = "A"
    /\ inclusive = FALSE
    /\ trim_input = tokens

NextTruncateSeq == TruncateSeq

SpecTruncateSeq == InitTruncateSeq /\ [][NextTruncateSeq]_vars

\* The call runs on: a pass of the loop that can be taken is taken.
LiveTruncateSeq == SpecTruncateSeq /\ WF_vars(NextTruncateSeq)

\* _truncate_seq_pair(tokens_a, tokens_b, max_num_tokens) on every pair of
\* sequences.
InitTruncateSeqPair ==
    /\ pc = "pair_loop"
    /\ raised = "none"
    /\ InitConfigIdle /\ InitPackerIdle /\ InitMaskIdle
    /\ InitSubwordIdle
    /\ max_length \in -1..MaxTokensA
    /\ \E a \in SeqsUpTo(Words, MaxTokensA), b \in SeqsUpTo(Words, MaxTokensB) :
          tokens = [X \in {"A", "B"} |-> IF X = "A" THEN a ELSE b]
    /\ lcut = [X \in {"A", "B"} |-> <<>>]
    /\ rcut = [X \in {"A", "B"} |-> <<>>]
    /\ cur = "A"
    /\ inclusive = FALSE
    /\ trim_input = tokens

NextTruncateSeqPair ==
    \/ PairBreak
    \/ PairRemove

SpecTruncateSeqPair == InitTruncateSeqPair /\ [][NextTruncateSeqPair]_vars

\* The call runs on: a pass of the loop that can be taken is taken.
LiveTruncateSeqPair == SpecTruncateSeqPair /\ WF_vars(NextTruncateSeqPair)

\* Either pair trim, _truncate or _truncate_seq_pair, on every pair of
\* sequences.
InitPairTrims == InitTruncate \/ InitTruncateSeqPair

NextPairTrims ==
    \/ NextTruncate
    \/ NextTruncateSeqPair

SpecPairTrims == InitPairTrims /\ [][NextPairTrims]_vars

\* create_masked_lm_predictions(tokens_a, tokens_b, masked_lm_ratio,
\* vocab_words) on every input of at most MaxMaskTokens tokens.
InitMask ==
    /\ pc = "mask_begin"
    /\ raised = "none"
    /\ InitPackerIdle /\ InitTruncateIdle
    /\ InitSubwordIdle
    /\ max_seq_length = 128
    /\ masking = TRUE
    /\ partition_documents = <<>>
    /\ duplicate_factor = 1
    /\ masked_lm_ratio \in MaskRatios
    /\ vocab_words \in Vocabularies
    /\ tokens_a \in SeqsUpTo(MaskTokens, MaxMaskTokens)
    /\ tokens_b \in SeqsUpTo(MaskTokens, MaxMaskTokens - Len(tokens_a))
    /\ mlm_tokens = <<>>
    /\ cand_indexes = <<>>
    /\ output_tokens = <<>>
    /\ num_to_predict = 0
    /\ masked_lms = <<>>
    /\ covered_indexes = {}
    /\ cursor = 0
    /\ result = <<>>

NextMask ==
    \/ MaskBegin
    \/ MaskLoop
    \/ MaskReturn

SpecMask == InitMask /\ [][NextMask]_vars

InitRun ==
    /\ pc = "driver"
    /\ raised = "none"
    /\ InitPackerIdle /\ InitTruncateIdle /\ InitMaskIdle
    /\ InitSubwordIdle

\* One document, every shape, the default masking configuration.
InitPacker ==
    /\ InitRun
    /\ max_seq_length \in SeqLengths
    /\ masking = FALSE
    /\ masked_lm_ratio = <<3, 20>>
    /\ vocab_words = <<"v">>
    /\ \E d \in AllCodePairs : partition_documents = <<d>>
    /\ duplicate_factor = 1

NextPacker ==
    \/ CallPacker
    \/ ShortDoc
    \/ DocStep
    \/ DocTruncate
    \/ BodyInit
    \/ BodyStep
    \/ BodyTruncate
    \/ BodyEmit
    \/ Collect
    \/ Shuffle

SpecPacker == InitPacker /\ [][NextPacker]_vars

\* One document, every shape, the long sequence lengths.
InitPackerLong ==
    /\ InitRun
    /\ max_seq_length \in LongSeqLengths
    /\ masking = FALSE
    /\ masked_lm_ratio = <<3, 20>>
    /\ vocab_words = <<"v">>
    /\ \E d \in AllCodePairs : partition_documents = <<d>>
    /\ duplicate_factor = 1

SpecPackerLong == InitPackerLong /\ [][NextPacker]_vars

\* A partition of one or two small documents, every configuration.
DriverCodePairs ==
    {CodePair(<<2>>, <<>>), CodePair(<<2>>, <<3>>), CodePair(<<2, 2>>, <<33>>)}

InitDriver ==
    /\ InitRun
    /\ max_seq_length \in SeqLengths
    /\ masking \in BOOLEAN
    /\ masked_lm_ratio \in MaskRatios
    /\ vocab_words \in Vocabularies
    /\ partition_documents \in
           SeqsUpTo(DriverCodePairs, MaxPartitionDocs) \ {<<>>}
    /\ duplicate_factor \in 1..MaxDuplicate

SpecDriver == InitDriver /\ [][NextPacker]_vars

\* ------------------------------------------------------------ properties
Min(a, b) == IF a <= b THEN a ELSE b

\* t is a contiguous run of s, in order
IsRunOf(t, s) ==
    \E k \in 0..(Len(s) - Len(t)) : t = SubSeq(s, k + 1, k + Len(t))

InBody == pc \in {"body_loop", "body_trunc", "body_emit", "packer_return"}

\* C1: every instance the packer emits has num_tokens equal to its
\* description tokens plus its body tokens plus special_token_length, and
\* num_tokens <= max_seq_length, whatever draws are made.
C1_LengthBound ==
    /\ InBody =>
         \A k \in 1..Len(instances) :
            /\ instances[k].num_tokens =
                  Len(instances[k].doc) + Len(instances[k].code)
                  + (IF Len(document.docstrings) > 0 THEN 3 ELSE 2)
            /\ instances[k].num_tokens <= max_seq_length
    /\ \A k \in 1..Len(partition_pairs) :
          partition_pairs[k].num_tokens <= max_seq_length

\* C1 witness: an emitted window with a description whose body was trimmed
\* and that fills the sequence exactly.
C1_Witness ==
    /\ pc = "packer_return"
    /\ \E k \in 1..Len(instances) :
          /\ instances[k].doc # <<>>
          /\ instances[k].num_tokens = max_seq_length
          /\ Len(instances[k].code) < flushes[1].chunk_len

\* C2 as claimed: when the packer returns, every body sentence is in the
\* chunk of a flush whose instance was appended to the output.
C2_CoverageEmitted ==
    pc = "packer_return" =>
      \A s \in 1..Len(document.codes) :
        \E k \in 1..Len(flushes) :
          s \in Range(flushes[k].chunk) /\ flushes[k].after > flushes[k].before

\* C2 amended: when the packer returns, every body sentence is in the
\* chunk of some flush, and it is in no emitted window only if every flush
\* holding it came after the first instance with a trimmed body under 16
\* tokens.
C2_CoverageFlushed ==
    pc = "packer_return" =>
      \A s \in 1..Len(document.codes) :
        LET holding == {k \in 1..Len(flushes) : s \in Range(flushes[k].chunk)}
        IN /\ holding # {}
           /\ \/ \E k \in holding : flushes[k].after > flushes[k].before
              \/ \A k \in holding :
                    flushes[k].before > 0 /\ flushes[k].code_len < 16

\* C2 witness: a completed run in which a sentence is in no emitted window.
C2_Witness ==
    /\ pc = "packer_return"
    /\ \E s \in 1..Len(document.codes) :
         \A k \in 1..Len(flushes) :
           s \in Range(flushes[k].chunk) => flushes[k].after = flushes[k].before

\* C3: a run that completes returns at least one instance; at each flush
\* an instance is emitted iff none was emitted before or the trimmed body
\* has at least 16 tokens; every instance after the first has >= 16 body
\* tokens.
C3_EmitRule ==
    /\ pc = "packer_return" => Len(instances) >= 1
    /\ InBody =>
         /\ \A k \in 1..Len(flushes) :
               /\ flushes[k].after \in {flushes[k].before, flushes[k].before + 1}
               /\ (flushes[k].after = flushes[k].before + 1)
                    <=> (flushes[k].before = 0 \/ flushes[k].code_len >= 16)
         /\ \A k \in 2..Len(instances) : Len(instances[k].code) >= 16

\* C3 witness: a completed run with a filtered flush and a second instance.
C3_Witness ==
    /\ pc = "packer_return"
    /\ Len(instances) >= 2
    /\ \E k \in 1..Len(flushes) : flushes[k].after = flushes[k].before

\* C4 as claimed: every body segment has >= 1 token and the packer raises
\* only when max_num_tokens - doc_length < 0.
C4_FailsOnlyBelowZero ==
    /\ InBody => \A k \in 1..Len(instances) : Len(instances[k].code) >= 1
    /\ pc = "error" => max_num_tokens - doc_length < 0

\* C4 amended: every body segment has >= 1 token and the packer raises
\* only when max_num_tokens - doc_length < 1.
C4_FailsOnlyBelowOne ==
    /\ InBody => \A k \in 1..Len(instances) : Len(instances[k].code) >= 1
    /\ pc = "error" => max_num_tokens - doc_length < 1

\* C4 witness: a run with a budget of exactly one body token completes.
C4_Witness ==
    /\ pc = "packer_return"
    /\ max_num_tokens - doc_length = 1
    /\ doc_length > 0
    /\ Len(instances) >= 1

\* The description the spec describes for a run without the short draw:
\* all sentences when they fit, else the sentences before the overflowing
\* one (or that one alone when it is the first), trimmed.
PrefixFits(n) == SumLen(Prefix(document.docstrings, n)) <= max_doc_seq_length

C9_Expected(toks) ==
    LET ds == document.docstrings
        over == {n \in 1..Len(ds) : ~PrefixFits(n)}
    IN IF over = {} THEN toks = Flatten(ds)
       ELSE LET first == CHOOSE n \in over : \A m \in over : n <= m
                kept == IF first > 1 THEN Prefix(ds, first - 1)
                        ELSE Prefix(ds, 1)
            IN /\ IsRunOf(toks, Flatten(kept))
               /\ Len(toks) = Min(SumLen(kept), max_doc_seq_length)

\* C9: without the short draw the description is the concatenation of all
\* its sentences when their total is <= max_doc_seq_length, for any number
\* of body sentences; on overflow the overflowing sentence is dropped (when
\* it is not the only one) and the rest trimmed to max_doc_seq_length.
C9_DescriptionAccumulated ==
    (pc = "body_init" /\ ~short_seq_draw /\ Len(document.docstrings) >= 1)
       => C9_Expected(doc_tokens)

\* The chunk without the sentences kept for the next chunk.
NonRetained(chunk, stay) == Prefix(chunk, Len(chunk) - Len(stay))

\* C10 as claimed: at a flush the trimmed candidate is a run of the
\* concatenation of the non-retained sentences only, cut to
\* max_num_tokens - doc_length.
C10_NonRetainedOnly ==
    pc = "body_emit" =>
       LET cand == Flatten(NonRetained(current_chunk, stay_chunk_idx))
       IN /\ IsRunOf(code_tokens, cand)
          /\ Len(code_tokens) = Min(Len(cand), max_num_tokens - doc_length)

\* C10 amended: at a flush the candidate is the concatenation, in order,
\* of all the sentences of the chunk, the retained one included, and the
\* trim leaves a run of it of min(its length, max_num_tokens - doc_length)
\* tokens.
C10_WholeChunk ==
    /\ pc = "body_trunc" =>
          /\ IsRunOf(code_tokens, Flatten(current_chunk))
          /\ Len(code_tokens) >=
                Min(SumLen(current_chunk), max_num_tokens - doc_length)
    /\ pc = "body_emit" =>
          /\ IsRunOf(code_tokens, Flatten(current_chunk))
          /\ Len(code_tokens) =
                Min(SumLen(current_chunk), max_num_tokens - doc_length)

\* C10 witness: a flush that retains a sentence and whose candidate holds
\* tokens of that sentence after the trim.
C10_Witness ==
    /\ pc = "body_emit"
    /\ stay_chunk_idx = <<-1>>
    /\ Len(code_tokens) < SumLen(current_chunk)
    /\ \E k \in 1..Len(code_tokens) :
          code_tokens[k][2] = current_chunk[Len(current_chunk)][1][2]

\* A configuration fault that can be seen before any document is read.
ConfigFault ==
    \/ masked_lm_ratio[1] < 0
    \/ masked_lm_ratio[1] > masked_lm_ratio[2]
    \/ masking /\ vocab_words = <<>>

\* C8: with a mask ratio outside [0,1] or an empty vocabulary with
\* masking enabled no instance is ever emitted and the run does not return
\* normally, and a run that ends on a budget max_num_tokens - doc_length < 0
\* ends before any document was processed.
C8_RejectedBeforeProcessing ==
    /\ ConfigFault =>
          /\ pc # "returned"
          /\ instances = <<>> /\ partition_pairs = <<>>
    /\ (pc = "error" /\ max_num_tokens - doc_length < 0) =>
          /\ instances = <<>> /\ partition_pairs = <<>>
          /\ dup_round = 0 /\ document_index = 0

\* A token without the reserved prefix: a whole token.
IsWhole(w) == PySlice(w, 0, 2) # <<"#", "#">>

\* C5: when _truncate returns (max_length >= 0), no output sequence starts
\* with a continuation fragment whose preceding whole token was cut away:
\* if the first token is a fragment, no whole token is in the left-cut
\* buffer.  (An output that ends with such a fragment consists of fragments
\* only, so it starts with one too.)
C5_BoundaryLaw ==
    (pc = "truncated" /\ max_length >= 0) =>
       \A X \in {"A", "B"} :
          (tokens[X] # <<>> /\ _is_following_subword(tokens[X][1]))
             => \A k \in 1..Len(lcut[X]) : ~IsWhole(lcut[X][k])

Markers == {"[CLS]", "[SEP]"}

RatioInRange == 0 <= masked_lm_ratio[1] /\ masked_lm_ratio[1] <= masked_lm_ratio[2]

StrictlyIncreasing(s) == \A k \in 1..(Len(s) - 1) : s[k] < s[k + 1]

\* the markers of the framing: 3 with a description, else 2
FramingMarkers == IF tokens_a # <<>> THEN 3 ELSE 2

NoMarkerIn(toks) == \A k \in 1..Len(toks) : toks[k] \notin Markers

\* C6 as claimed: with at least one non-marker token (the inputs hold no
\* marker and len(full) - special_tokens >= 1) and a ratio in [0,1] the
\* builder returns exactly max(1, round(len(full) * ratio)) masked
\* positions, strictly increasing.
C6_ExactCount ==
    (/\ pc = "masked"
     /\ RatioInRange
     /\ NoMarkerIn(tokens_a) /\ NoMarkerIn(tokens_b)
     /\ Len(mlm_tokens) - FramingMarkers >= 1) =>
       /\ Len(result.masked_lm_positions) =
             Max(1, PyRound(Len(mlm_tokens) * masked_lm_ratio[1],
                            masked_lm_ratio[2]))
       /\ StrictlyIncreasing(result.masked_lm_positions)

\* C6 amended: the builder returns exactly min(number of non-marker tokens
\* of full, max(1, round(len(full) * ratio))) masked positions, strictly
\* increasing.
C6_CountUpToCandidates ==
    pc = "masked" =>
       /\ Len(result.masked_lm_positions) =
             Min(Cardinality({k \in 1..Len(mlm_tokens) :
                                mlm_tokens[k] \notin Markers}),
                 Max(1, PyRound(Len(mlm_tokens) * masked_lm_ratio[1],
                                masked_lm_ratio[2])))
       /\ StrictlyIncreasing(result.masked_lm_positions)

\* C6 witness: a return with a ratio in [0,1] where the permutation was
\* exhausted before num_to_predict positions were selected.
C6_Witness ==
    /\ pc = "masked"
    /\ RatioInRange
    /\ Len(result.masked_lm_positions) >= 2
    /\ Len(result.masked_lm_positions) < num_to_predict

\* C7: rebuilding [CLS] + tokens_a' + ([SEP] if tokens_a) + tokens_b' +
\* [SEP] from the returned sequences gives the mutated full sequence; the
\* returned sequences have the lengths of the inputs and hold a marker only
\* where the input held one.
C7_SliceRoundTrip ==
    pc = "masked" =>
       /\ <<"[CLS]">> \o result.tokens_a
             \o (IF tokens_a # <<>> THEN <<"[SEP]">> ELSE <<>>)
             \o result.tokens_b \o <<"[SEP]">> = output_tokens
       /\ Len(result.tokens_a) = Len(tokens_a)
       /\ Len(result.tokens_b) = Len(tokens_b)
       /\ \A k \in 1..Len(result.tokens_a) :
             result.tokens_a[k] \in Markers => tokens_a[k] \in Markers
       /\ \A k \in 1..Len(result.tokens_b) :
             result.tokens_b[k] \in Markers => tokens_b[k] \in Markers

\* The positions of the body loop, before the return.
InBodyLoop == pc \in {"body_loop", "body_trunc", "body_emit"}

SharedSentences(k) == Range(flushes[k].chunk) \cap Range(flushes[k + 1].chunk)

\* C11: in the body loop a sentence is flushed exactly when it is the last
\* one of the document or current_length (with it) exceeds max_num_tokens;
\* after a flush the working chunk is the last sentence of the flushed chunk
\* alone if that chunk held more than one sentence and current_length
\* exceeded max_num_tokens, and is empty otherwise; two consecutive flushed
\* chunks share at most one sentence; and at every step current_length is
\* doc_length plus the lengths of the sentences of the working chunk.
C11_FlushAndOverlap ==
    /\ [](InBodyLoop => current_length = doc_length + SumLen(current_chunk))
    /\ [](InBody => \A k \in 1..(Len(flushes) - 1) :
                       Cardinality(SharedSentences(k)) <= 1)
    /\ [][(pc = "body_loop" /\ i < LenDocument) =>
             ((pc' = "body_trunc") <=>
                (i = LenDocument - 1 \/ current_length' > max_num_tokens))]_vars
    /\ [][(pc = "body_emit" /\ pc' = "body_loop") =>
             current_chunk' =
                IF Len(current_chunk) > 1 /\ current_length > max_num_tokens
                THEN <<current_chunk[Len(current_chunk)]>>
                ELSE <<>>]_vars

\* C11 witness: with a description, two consecutive flushed chunks share a
\* sentence and the second flush left its last sentence as the working
\* chunk.
C11_Witness ==
    /\ pc = "body_loop"
    /\ doc_length > 0
    /\ Len(flushes) >= 2
    /\ Cardinality(SharedSentences(Len(flushes) - 1)) = 1
    /\ Len(current_chunk) = 1
    /\ current_length = doc_length + Len(current_chunk[1])

OtherSeq(X) == IF X = "A" THEN "B" ELSE "A"

\* A step of the coarse loop of _truncate or of the loop of
\* _truncate_seq_pair that removes a token.
RemovalStep ==
    \/ pc = "cut" /\ pc' = "cut"
    \/ pc = "pair_loop" /\ pc' = "pair_loop"

RemovedOneFrom(X) ==
    /\ Len(tokens'[X]) = Len(tokens[X]) - 1
    /\ tokens'[OtherSeq(X)] = tokens[OtherSeq(X)]

\* C12 as claimed: each removal of _truncate_seq_pair and of the coarse
\* phase of _truncate takes one token from the longer sequence, and from
\* tokens_a when the two have equal length.
C12_TieToA ==
    [][RemovalStep =>
         RemovedOneFrom(IF Len(tokens["A"]) >= Len(tokens["B"])
                        THEN "A" ELSE "B")]_vars

\* C12 amended: each removal of _truncate_seq_pair and of the coarse phase
\* of _truncate takes one token from the strictly longer sequence, and from
\* tokens_b when the two have equal length.
C12_TieToB ==
    [][RemovalStep =>
         RemovedOneFrom(IF Len(tokens["A"]) > Len(tokens["B"])
                        THEN "A" ELSE "B")]_vars

\* C12 witness: _truncate_seq_pair returned after exactly one removal from two
\* sequences of equal length, and tokens_b is the shorter one.
C12_Witness ==
    /\ pc = "pair_done"
    /\ Len(trim_input["A"]) = Len(trim_input["B"])
    /\ Len(tokens["A"]) = Len(trim_input["A"])
    /\ Len(tokens["B"]) = Len(trim_input["B"]) - 1

\* C13: _is_following_subword(word) holds iff word starts with the marker
\* "##" and has at least one further character, the characters after the
\* marker being all alphabetic: "##a" is a fragment, "##1a" is not.
C13_FragmentPredicate ==
    pc = "subword_done" =>
       (following <=>
          /\ PySlice(word, 0, 2) = <<"#", "#">>
          /\ Len(word) > 2
          /\ \A k \in 3..Len(word) : word[k] \in Alphabetic)

\* C14: for every sequence and every max_num_tokens >= 0, _truncate_seq
\* never raises and ends; what is left is at every pass a contiguous run of
\* the input, in order; at the end it has min(len(input), max_num_tokens)
\* tokens, and an input within the limit is left as it was.
C14_TrimOneSequence ==
    /\ [](max_length >= 0 =>
            /\ pc # "error"
            /\ IsRunOf(tokens["A"], trim_input["A"])
            /\ pc = "seq_done" =>
                  /\ Len(tokens["A"]) = Min(Len(trim_input["A"]), max_length)
                  /\ Len(trim_input["A"]) <= max_length =>
                        tokens["A"] = trim_input["A"])
    /\ <>(pc = "seq_done" \/ max_length < 0)

\* C14 witness: a sequence of three tokens cut to its middle token, one
\* removal at each end.
C14_Witness ==
    /\ pc = "seq_done"
    /\ max_length = 1
    /\ Len(trim_input["A"]) = 3
    /\ tokens["A"] = <<trim_input["A"][2]>>
    /\ trim_input["A"][2] # trim_input["A"][1]
    /\ trim_input["A"][2] # trim_input["A"][3]

\* The positions (from 0) selected so far.
SelectedIndexes == {masked_lms[k].index : k \in 1..Len(masked_lms)}

\* C15: in every run of create_masked_lm_predictions, every masked position
\* is an index of the framed sequence that holds neither [CLS] nor [SEP];
\* the label of a position is the original token there; an output token at a
\* position that was not selected is the original token, and at a selected
\* position it is [MASK], the original token or a word of the vocabulary;
\* the output is as long as the framed sequence; and the returned positions
\* and labels are those of the selections.
C15_MaskInPlace ==
    pc \in {"mask_loop", "mask_sort", "masked"} =>
       /\ Len(output_tokens) = Len(mlm_tokens)
       /\ \A k \in 1..Len(masked_lms) :
             /\ masked_lms[k].index \in 0..(Len(mlm_tokens) - 1)
             /\ mlm_tokens[masked_lms[k].index + 1] \notin Markers
             /\ masked_lms[k].label = mlm_tokens[masked_lms[k].index + 1]
       /\ \A p \in 0..(Len(mlm_tokens) - 1) :
             IF p \in SelectedIndexes
             THEN output_tokens[p + 1] \in
                     {"[MASK]", mlm_tokens[p + 1]} \cup Range(vocab_words)
             ELSE output_tokens[p + 1] = mlm_tokens[p + 1]
       /\ pc = "masked" =>
             /\ Len(result.masked_lm_positions) = Len(masked_lms)
             /\ Len(result.masked_lm_labels) = Len(masked_lms)
             /\ \A k \in 1..Len(masked_lms) :
                   /\ result.masked_lm_positions[k] \in SelectedIndexes
                   /\ result.masked_lm_labels[k] =
                         mlm_tokens[result.masked_lm_positions[k] + 1]

\* C15 witness: a return with two selected positions, one of them replaced
\* by a word of the vocabulary, and a non-marker position that was not
\* selected.
C15_Witness ==
    /\ pc = "masked"
    /\ Len(result.masked_lm_positions) = 2
    /\ \E p \in SelectedIndexes :
          output_tokens[p + 1] = "v" /\ mlm_tokens[p + 1] # "v"
    /\ \E p \in 0..(Len(mlm_tokens) - 1) :
          p \notin SelectedIndexes /\ mlm_tokens[p + 1] \notin Markers

\* A step inside the head pass, or inside the tail pass, of _adjust on one
\* sequence.
HeadPassStep == pc = "adjust_head" /\ pc' = "adjust_head" /\ cur' = cur

TailPassStep == pc = "adjust_tail" /\ pc' = "adjust_tail" /\ cur' = cur

\* C16: in _adjust the choice between pulling in and evicting is drawn once
\* per pass: every step of a head pass leaves the draw as it was, and is a
\* pull-in from the left buffer if the draw is inclusive and an eviction
\* into it if not; likewise every step of a tail pass against the right
\* buffer; and every call of _adjust ends.
C16_DrawOncePerPass ==
    /\ [][HeadPassStep =>
            /\ inclusive' = inclusive
            /\ IF inclusive
               THEN /\ lcut[cur] # <<>>
                    /\ lcut'[cur] = SubSeq(lcut[cur], 1, Len(lcut[cur]) - 1)
                    /\ tokens'[cur] =
                          <<lcut[cur][Len(lcut[cur])]>> \o tokens[cur]
               ELSE /\ tokens[cur] # <<>>
                    /\ lcut'[cur] = Append(lcut[cur], tokens[cur][1])
                    /\ tokens'[cur] = Tail(tokens[cur])]_vars
    /\ [][TailPassStep =>
            /\ inclusive' = inclusive
            /\ IF inclusive
               THEN /\ rcut[cur] # <<>>
                    /\ tokens'[cur] = Append(tokens[cur], rcut[cur][1])
                    /\ rcut'[cur] = Tail(rcut[cur])
               ELSE /\ tokens[cur] # <<>>
                    /\ rcut'[cur] =
                          <<tokens[cur][Len(tokens[cur])]>> \o rcut[cur]
                    /\ tokens'[cur] =
                          SubSeq(tokens[cur], 1, Len(tokens[cur]) - 1)]_vars
    /\ <>(pc = "truncated")

\* C16 witness: a head pass that has evicted two fragments, and is still
\* running.
C16_Witness ==
    /\ pc = "adjust_head"
    /\ ~inclusive
    /\ Len(tokens[cur]) = Len(trim_input[cur]) - 2
    /\ Len(lcut[cur]) >= 2

CombinedLength(t) == Len(t["A"]) + Len(t["B"])

\* C17: _truncate_seq_pair raises only when the list it chose to remove
\* from is empty, which needs max_num_tokens < 0; what is left of each
\* sequence is at every pass a contiguous run of its input, in order; the
\* call returns with a combined length of min(initial combined length,
\* max_num_tokens); and for max_num_tokens >= 0 it ends by returning.
C17_PairTrimTotal ==
    /\ [](/\ \A X \in {"A", "B"} : IsRunOf(tokens[X], trim_input[X])
          /\ pc = "error" =>
                /\ raised = "AssertionError"
                /\ tokens[TruncTokens] = <<>>
                /\ max_length < 0
          /\ pc = "pair_done" =>
                CombinedLength(tokens) =
                   Min(CombinedLength(trim_input), max_length))
    /\ <>(pc = "pair_done" \/ max_length < 0)

\* C17 witness: a return after removals from both sequences that leaves
\* exactly max_num_tokens tokens.
C17_Witness ==
    /\ pc = "pair_done"
    /\ Len(tokens["A"]) < Len(trim_input["A"])
    /\ Len(tokens["B"]) < Len(trim_input["B"])
    /\ CombinedLength(tokens) = max_length
    /\ max_length >= 1

\* C18: when the document has docstring sentences and the short draw is
\* taken (short_seq_p < short_seq_prob), the description of the run, and of
\* every instance it emits, is the first docstring sentence, whole, even
\* when it is longer than max_doc_seq_length.
C18_ShortDescription ==
    (InBody /\ short_seq_draw /\ num_doc_segments(document) > 0) =>
       /\ doc_tokens = document.docstrings[1]
       /\ \A k \in 1..Len(instances) :
             instances[k].doc = document.docstrings[1]

\* C18 witness: a completed run with the short draw whose instances carry
\* a first docstring sentence longer than max_doc_seq_length.
C18_Witness ==
    /\ pc = "packer_return"
    /\ short_seq_draw
    /\ num_doc_segments(document) > 0
    /\ Len(document.docstrings[1]) > max_doc_seq_length
    /\ Len(instances) >= 1
    /\ instances[1].doc = document.docstrings[1]

\* C19: at every step of _truncate, coarse cuts and adjustments alike, for
\* each of the two sequences lcut ++ tokens ++ rcut is the sequence that was
\* passed in: no token is lost, duplicated, reordered or moved to the other
\* sequence, and what is returned is a contiguous run of the input.
C19_Conservation ==
    pc \in {"cut", "adjust_head", "adjust_tail", "truncated", "error"} =>
       \A X \in {"A", "B"} :
          /\ lcut[X] \o tokens[X] \o rcut[X] = trim_input[X]
          /\ IsRunOf(tokens[X], trim_input[X])

\* C19 witness: a return where tokens_A was cut at both ends and keeps a
\* token, an adjustment having pulled a token back in, and tokens_B was
\* cut too.
C19_Witness ==
    /\ pc = "truncated"
    /\ lcut["A"] # <<>> /\ rcut["A"] # <<>> /\ tokens["A"] # <<>>
    /\ lcut["B"] \o rcut["B"] # <<>>
    /\ Len(tokens["A"]) + Len(tokens["B"]) > max_length
    /\ max_length >= 0

====
